---- MODULE Spec2Model ----
(***************************************************************************)
(* Model of examples/tree.c: a statically built binary tree of seven       *)
(* struct Node objects and the recursive pre-order traversal dfs().        *)
(*                                                                         *)
(* The machine runs one of two entry points:                               *)
(*   entry = "main" : the program main() as written (lines 29-54);         *)
(*   entry = "dfs"  : a single call dfs(arg) on an arbitrary reference     *)
(*                    graph over the first MaxNodes node objects, used for *)
(*                    the statements made about dfs() in general.          *)
(* Every C statement is one step; the call stack is explicit.              *)
(***************************************************************************)
EXTENDS Naturals, Sequences, FiniteSets

VARIABLES
    entry,    \* which entry point runs: "main" or "dfs"
    pc,       \* the statement of the entry point that executes next
    node,     \* the struct Node objects, by address
    arg,      \* the argument of the outermost dfs call
    stack,    \* the active invocations of dfs and visit, innermost last
    out,      \* the lines written to stdout
    visited,  \* the addresses visit() was applied to, in order
    absent,   \* number of dfs invocations that took the return of line 21
    reached,  \* number of dfs invocations that reached line 24
    writes,   \* the child references assigned by lines 43-48, in order
    status    \* << >> while running, <<code>> once main returned

vars == <<entry, pc, node, arg, stack, out, visited, absent, reached,
          writes, status>>

(* ---------------------------- bounds ----------------------------------- *)

\* number of node objects a general dfs() input may use
MaxNodes == 3

\* call-stack frames available to a general dfs() input (main is not capped)
MaxStack == 5

(* ------------------------- struct Node --------------------------------- *)

NULL == "NULL"

\* the seven objects declared in main, by address
Addr == <<"&root", "&a", "&b", "&c", "&d", "&e", "&f">>

AllNodes == {Addr[i] : i \in 1..Len(Addr)}

\* the .name designated initializers of lines 34-40
NodeNames == [x \in AllNodes |->
                CASE x = "&root" -> "root"
                  [] x = "&a"    -> "a"
                  [] x = "&b"    -> "b"
                  [] x = "&c"    -> "c"
                  [] x = "&d"    -> "d"
                  [] x = "&e"    -> "e"
                  [] x = "&f"    -> "f"]

\* a struct Node value
Node(l, r, n) == [left |-> l, right |-> r, name |-> n]

\* storage of main's locals before their declaration is executed
Indeterminate == Node("?", "?", "?")

\* Links with line 47 written as d.right = &e
Links_DRight ==
         << [line |-> "L43", obj |-> "&root", field |-> "left",  val |-> "&a", next |-> "L44"],
            [line |-> "L44", obj |-> "&root", field |-> "right", val |-> "&b", next |-> "L45"],
            [line |-> "L45", obj |-> "&a",    field |-> "left",  val |-> "&c", next |-> "L46"],
            [line |-> "L46", obj |-> "&a",    field |-> "right", val |-> "&d", next |-> "L47"],
            [line |-> "L47", obj |-> "&d",    field |-> "right", val |-> "&e", next |-> "L48"],
            [line |-> "L48", obj |-> "&b",    field |-> "right", val |-> "&f", next |-> "L50"] >>

\* Links with line 48 written as e.left = &f
Links_Chain ==
         << [line |-> "L43", obj |-> "&root", field |-> "left",  val |-> "&a", next |-> "L44"],
            [line |-> "L44", obj |-> "&root", field |-> "right", val |-> "&b", next |-> "L45"],
            [line |-> "L45", obj |-> "&a",    field |-> "left",  val |-> "&c", next |-> "L46"],
            [line |-> "L46", obj |-> "&a",    field |-> "right", val |-> "&d", next |-> "L47"],
            [line |-> "L47", obj |-> "&d",    field |-> "left",  val |-> "&e", next |-> "L48"],
            [line |-> "L48", obj |-> "&e",    field |-> "left",  val |-> "&f", next |-> "L50"] >>

\* the assignments of lines 43-48, in program order
Links == << [line |-> "L43", obj |-> "&root", field |-> "left",  val |-> "&a", next |-> "L44"],
            [line |-> "L44", obj |-> "&root", field |-> "right", val |-> "&b", next |-> "L45"],
            [line |-> "L45", obj |-> "&a",    field |-> "left",  val |-> "&c", next |-> "L46"],
            [line |-> "L46", obj |-> "&a",    field |-> "right", val |-> "&d", next |-> "L47"],
            [line |-> "L47", obj |-> "&d",    field |-> "left",  val |-> "&e", next |-> "L48"],
            [line |-> "L48", obj |-> "&b",    field |-> "right", val |-> "&f", next |-> "L50"] >>

(* --------------------- inputs of a general dfs() call ------------------ *)

HNodes == {Addr[i] : i \in 1..MaxNodes}

RECURSIVE ClosureIn(_, _)
ClosureIn(g, S) ==
    LET T == S \cup (({g[x].left : x \in S} \cup {g[x].right : x \in S}) \ {NULL})
    IN  IF T = S THEN S ELSE ClosureIn(g, T)

\* the nodes reachable from reference r in graph g
ReachIn(g, r) == IF r = NULL THEN {} ELSE ClosureIn(g, {r})

\* slot 2i-1 is Addr[i].left and slot 2i is Addr[i].right
Slot(g, k) == IF k % 2 = 1 THEN g[Addr[(k + 1) \div 2]].left ELSE g[Addr[k \div 2]].right

\* the first slot, in slot order, that refers to Addr[j] (0: none does)
FirstRef(g, j) ==
    LET S == {k \in 1..(2 * MaxNodes) : Slot(g, k) = Addr[j]}
    IN  IF S = {} THEN 0 ELSE CHOOSE k \in S : \A m \in S : k <= m

\* dfs never compares or prints addresses, so one graph per renaming of the
\* objects is enough: the reachable objects are Addr[1..k], numbered in the
\* order in which the slots first refer to them
Canonical(g, r) ==
    \A j \in 2..MaxNodes :
        Addr[j] \in ReachIn(g, r) =>
            /\ FirstRef(g, j) # 0 /\ FirstRef(g, j) <= 2 * (j - 1)
            /\ j > 2 => FirstRef(g, j - 1) # 0 /\ FirstRef(g, j - 1) < FirstRef(g, j)

\* reference graphs over HNodes; objects that are not reachable from the
\* argument hold no references (dfs never reads them)
HGraphs(r) ==
    { g \in [HNodes -> [left : HNodes \cup {NULL}, right : HNodes \cup {NULL}]] :
        /\ \A x \in HNodes \ ReachIn(g, r) : g[x].left = NULL /\ g[x].right = NULL
        /\ Canonical(g, r) }

(* ------------------------------ frames ---------------------------------- *)

Frame(f, n, p) == [fn |-> f, node |-> n, pc |-> p]

Top == stack[Len(stack)]

Pop == SubSeq(stack, 1, Len(stack) - 1)

\* the caller resumes at line p while the callee frame is pushed
Call(p, callee) == Append([stack EXCEPT ![Len(stack)].pc = p], callee)

(* ------------------------------- Init ----------------------------------- *)

InitMain ==
    /\ entry = "main"
    /\ pc = "L33"
    /\ node = [x \in AllNodes |-> Indeterminate]
    /\ arg = "&root"

InitDfs ==
    /\ entry = "dfs"
    /\ pc = "call"
    /\ arg \in {NULL, Addr[1]}
    /\ \E g \in HGraphs(arg) :
         node = [x \in AllNodes |->
                   IF x \in HNodes THEN Node(g[x].left, g[x].right, NodeNames[x])
                                   ELSE Node(NULL, NULL, NodeNames[x])]

Init ==
    /\ InitMain \/ InitDfs
    /\ stack = << >>
    /\ out = << >>
    /\ visited = << >>
    /\ absent = 0
    /\ reached = 0
    /\ writes = << >>
    /\ status = << >>

(* ------------------------------- visit ---------------------------------- *)

\* line 14 with the quotes left out of the format
VisitLine_NoQuotes(n) == "visiting node " \o n \o "\n"

\* line 14: printf("visiting node '%s'\n", node->name)
VisitLine(n) == "visiting node '" \o n \o "'\n"

\* visit that also clears the left reference of the node it prints
VisitPrintf_Clobbers ==
    /\ stack # << >>
    /\ Top.fn = "visit" /\ Top.pc = 14
    /\ out' = Append(out, VisitLine(node[Top.node].name))
    /\ visited' = Append(visited, Top.node)
    /\ node' = [node EXCEPT ![Top.node].left = NULL]
    /\ stack' = [stack EXCEPT ![Len(stack)].pc = 15]
    /\ UNCHANGED <<entry, pc, arg, absent, reached, writes, status>>

VisitPrintf ==
    /\ stack # << >>
    /\ Top.fn = "visit" /\ Top.pc = 14
    /\ out' = Append(out, VisitLine(node[Top.node].name))
    /\ visited' = Append(visited, Top.node)
    /\ stack' = [stack EXCEPT ![Len(stack)].pc = 15]
    /\ UNCHANGED <<entry, pc, node, arg, absent, reached, writes, status>>

\* line 15: visit returns
VisitReturn ==
    /\ stack # << >>
    /\ Top.fn = "visit" /\ Top.pc = 15
    /\ stack' = Pop
    /\ UNCHANGED <<entry, pc, node, arg, out, visited, absent, reached, writes, status>>

(* -------------------------------- dfs ----------------------------------- *)

\* room for one more frame (only a general dfs() input is capped)
HasRoom == entry = "main" \/ Len(stack) < MaxStack

\* line 19 without the test: every invocation goes on to line 24
DfsCheck_NoNullTest ==
    /\ stack # << >>
    /\ Top.fn = "dfs" /\ Top.pc = 19
    /\ stack' = [stack EXCEPT ![Len(stack)].pc = 24]
    /\ absent' = absent
    /\ UNCHANGED <<entry, pc, node, arg, out, visited, reached, writes, status>>

\* line 19 also returning on a node that was visited before
DfsCheck_SeenTest ==
    /\ stack # << >>
    /\ Top.fn = "dfs" /\ Top.pc = 19
    /\ IF Top.node = NULL \/ \E i \in 1..Len(visited) : visited[i] = Top.node
         THEN /\ stack' = [stack EXCEPT ![Len(stack)].pc = 21]
              /\ absent' = absent + 1
         ELSE /\ stack' = [stack EXCEPT ![Len(stack)].pc = 24]
              /\ absent' = absent
    /\ UNCHANGED <<entry, pc, node, arg, out, visited, reached, writes, status>>

\* line 19: if (node == NULL)
DfsCheck ==
    /\ stack # << >>
    /\ Top.fn = "dfs" /\ Top.pc = 19
    /\ IF Top.node = NULL
         THEN /\ stack' = [stack EXCEPT ![Len(stack)].pc = 21]
              /\ absent' = absent + 1
         ELSE /\ stack' = [stack EXCEPT ![Len(stack)].pc = 24]
              /\ absent' = absent
    /\ UNCHANGED <<entry, pc, node, arg, out, visited, reached, writes, status>>

\* line 21: return
DfsReturnAbsent ==
    /\ stack # << >>
    /\ Top.fn = "dfs" /\ Top.pc = 21
    /\ stack' = Pop
    /\ UNCHANGED <<entry, pc, node, arg, out, visited, absent, reached, writes, status>>

\* line 24: visit(node)
DfsVisit ==
    /\ stack # << >>
    /\ Top.fn = "dfs" /\ Top.pc = 24
    /\ HasRoom
    /\ stack' = Call(25, Frame("visit", Top.node, 14))
    /\ reached' = reached + 1
    /\ UNCHANGED <<entry, pc, node, arg, out, visited, absent, writes, status>>

\* line 25 written as dfs(node->right)
DfsLeft_TakesRight ==
    /\ stack # << >>
    /\ Top.fn = "dfs" /\ Top.pc = 25
    /\ HasRoom
    /\ stack' = Call(26, Frame("dfs", node[Top.node].right, 19))
    /\ UNCHANGED <<entry, pc, node, arg, out, visited, absent, reached, writes, status>>

\* line 25 written as if (node->left) dfs(node->left)
DfsLeft_GuardedCall ==
    /\ stack # << >>
    /\ Top.fn = "dfs" /\ Top.pc = 25
    /\ HasRoom
    /\ IF node[Top.node].left = NULL
         THEN stack' = [stack EXCEPT ![Len(stack)].pc = 26]
         ELSE stack' = Call(26, Frame("dfs", node[Top.node].left, 19))
    /\ UNCHANGED <<entry, pc, node, arg, out, visited, absent, reached, writes, status>>

\* line 25: dfs(node->left)
DfsLeft ==
    /\ stack # << >>
    /\ Top.fn = "dfs" /\ Top.pc = 25
    /\ HasRoom
    /\ stack' = Call(26, Frame("dfs", node[Top.node].left, 19))
    /\ UNCHANGED <<entry, pc, node, arg, out, visited, absent, reached, writes, status>>

\* line 26 written as dfs(node->left)
DfsRight_TakesLeft ==
    /\ stack # << >>
    /\ Top.fn = "dfs" /\ Top.pc = 26
    /\ HasRoom
    /\ stack' = Call(27, Frame("dfs", node[Top.node].left, 19))
    /\ UNCHANGED <<entry, pc, node, arg, out, visited, absent, reached, writes, status>>

\* line 26 written as dfs(node)
DfsRight_SameNode ==
    /\ stack # << >>
    /\ Top.fn = "dfs" /\ Top.pc = 26
    /\ HasRoom
    /\ stack' = Call(27, Frame("dfs", Top.node, 19))
    /\ UNCHANGED <<entry, pc, node, arg, out, visited, absent, reached, writes, status>>

\* line 26: dfs(node->right)
DfsRight ==
    /\ stack # << >>
    /\ Top.fn = "dfs" /\ Top.pc = 26
    /\ HasRoom
    /\ stack' = Call(27, Frame("dfs", node[Top.node].right, 19))
    /\ UNCHANGED <<entry, pc, node, arg, out, visited, absent, reached, writes, status>>

\* line 27: end of dfs
DfsReturn ==
    /\ stack # << >>
    /\ Top.fn = "dfs" /\ Top.pc = 27
    /\ stack' = Pop
    /\ UNCHANGED <<entry, pc, node, arg, out, visited, absent, reached, writes, status>>

(* -------------------------------- main ---------------------------------- *)

\* lines 33-40: the declarations; members without an initializer are null
MainInitNodes ==
    /\ entry = "main" /\ pc = "L33"
    /\ node' = [x \in AllNodes |-> Node(NULL, NULL, NodeNames[x])]
    /\ pc' = "L43"
    /\ UNCHANGED <<entry, arg, stack, out, visited, absent, reached, writes, status>>

\* lines 43-48: one assignment of a child reference
MainLink(i) ==
    /\ entry = "main" /\ pc = Links[i].line
    /\ node' = [node EXCEPT ![Links[i].obj][Links[i].field] = Links[i].val]
    /\ writes' = Append(writes, <<Links[i].obj, Links[i].field>>)
    /\ pc' = Links[i].next
    /\ UNCHANGED <<entry, arg, stack, out, visited, absent, reached, status>>

\* line 50
MainPrintBegin ==
    /\ entry = "main" /\ pc = "L50"
    /\ out' = Append(out, "beginning depth first search\n")
    /\ pc' = "L51"
    /\ UNCHANGED <<entry, node, arg, stack, visited, absent, reached, writes, status>>

\* line 51: dfs(&root)
MainCallDfs ==
    /\ entry = "main" /\ pc = "L51"
    /\ stack' = <<Frame("dfs", arg, 19)>>
    /\ pc' = "L52"
    /\ UNCHANGED <<entry, node, arg, out, visited, absent, reached, writes, status>>

\* line 52
MainPrintFinished ==
    /\ entry = "main" /\ pc = "L52" /\ stack = << >>
    /\ out' = Append(out, "finished depth first search\n")
    /\ pc' = "L53"
    /\ UNCHANGED <<entry, node, arg, stack, visited, absent, reached, writes, status>>

\* line 53: return 0
MainReturn ==
    /\ entry = "main" /\ pc = "L53"
    /\ status' = <<0>>
    /\ pc' = "exited"
    /\ UNCHANGED <<entry, node, arg, stack, out, visited, absent, reached, writes>>

(* ------------------------ a general call dfs(arg) ----------------------- *)

DfsCall ==
    /\ entry = "dfs" /\ pc = "call"
    /\ stack' = <<Frame("dfs", arg, 19)>>
    /\ pc' = "ret"
    /\ UNCHANGED <<entry, node, arg, out, visited, absent, reached, writes, status>>

(* ------------------------------- Next ----------------------------------- *)

Next ==
    \/ MainInitNodes
    \/ \E i \in 1..Len(Links) : MainLink(i)
    \/ MainPrintBegin
    \/ MainCallDfs
    \/ MainPrintFinished
    \/ MainReturn
    \/ DfsCall
    \/ DfsCheck
    \/ DfsReturnAbsent
    \/ DfsVisit
    \/ DfsLeft
    \/ DfsRight
    \/ DfsReturn
    \/ VisitPrintf
    \/ VisitReturn

Spec == Init /\ [][Next]_vars

\* a C program keeps executing while it has a statement to execute
FairSpec == Spec /\ WF_vars(Next)

(* ------------------- notions used by the properties --------------------- *)

\* the child references hold addresses (main: once the declarations ran)
Initialized == entry = "dfs" \/ pc # "L33"

\* main's linking phase (lines 43-48) is complete
Linked == entry = "dfs" \/ pc \notin {"L33", "L43", "L44", "L45", "L46", "L47", "L48"}

\* the outermost dfs call has returned
DfsReturned == stack = << >> /\ pc \in {"ret", "L52", "L53", "exited"}

Reach(r) == ReachIn(node, r)

\* the nodes of the left and right subtrees of x
LeftOf(x) == Reach(node[x].left)
RightOf(x) == Reach(node[x].right)

\* some node reachable from r can be reached from one of its own children
HasCycle(r) == \E x \in Reach(r) : x \in LeftOf(x) \cup RightOf(x)

\* number of child references, held by nodes reachable from r, that refer to x
InDegree(r, x) ==
    Cardinality({s \in Reach(r) \X {"left", "right"} : node[s[1]][s[2]] = x})

\* every node reachable from r is reachable by exactly one path
IsTree(r) ==
    \A x \in Reach(r) : InDegree(r, x) = (IF x = r THEN 0 ELSE 1)

TreeInput == Linked /\ IsTree(arg)

IsPrefix(s, t) == Len(s) <= Len(t) /\ s = SubSeq(t, 1, Len(s))

NoDup(s) == \A i, j \in 1..Len(s) : s[i] = s[j] => i = j

\* position of the first visit of x
Pos(x) == CHOOSE i \in 1..Len(visited) : visited[i] = x

Visits(x) == Cardinality({i \in 1..Len(visited) : visited[i] = x})

\* dfs invocations that are active
DfsActive == {i \in 1..Len(stack) : stack[i].fn = "dfs"}

(* ------------------------------ properties ------------------------------ *)

ExpectedOrder == <<"&root", "&a", "&c", "&d", "&e", "&b", "&f">>

\* C1: on the tree built by main, dfs(&root) performs its visit actions in the
\* order root, a, c, d, e, b, f and performs no other visit action.
C1_TraversalOrder ==
    entry = "main" =>
        /\ IsPrefix(visited, ExpectedOrder)
        /\ DfsReturned => visited = ExpectedOrder

C1_Witness == entry = "main" /\ pc = "L52" /\ DfsReturned /\ Len(visited) = 7

\* C2: on a tree, dfs visits every reachable node exactly once, each node
\* before the nodes of its subtrees, and the whole left subtree of a node
\* before any node of its right subtree.
C2_PreOrder ==
    TreeInput =>
        /\ NoDup(visited)
        /\ \A i \in 1..Len(visited) : visited[i] \in Reach(arg)
        /\ DfsReturned =>
             /\ \A x \in Reach(arg) : Visits(x) = 1
             /\ \A x \in Reach(arg) :
                  /\ \A y \in LeftOf(x) \cup RightOf(x) : Pos(x) < Pos(y)
                  /\ \A y \in LeftOf(x) : \A z \in RightOf(x) : Pos(y) < Pos(z)

C2_Witness ==
    /\ entry = "dfs" /\ IsTree(arg) /\ DfsReturned
    /\ arg # NULL /\ node[arg].left # NULL /\ node[arg].right # NULL
    /\ Len(visited) = 3

\* C3: on a tree with N nodes the outermost dfs call eventually returns, and
\* when it has returned exactly N visit actions have been performed.
C3_Termination ==
    /\ TreeInput ~> DfsReturned
    /\ [](TreeInput /\ DfsReturned => Len(visited) = Cardinality(Reach(arg)))

C3_Witness ==
    /\ entry = "dfs" /\ IsTree(arg) /\ DfsReturned
    /\ arg # NULL /\ node[arg].left = NULL
    /\ Len(visited) = 3

\* C4: a dfs invocation on an absent reference visits nothing and calls
\* nothing (it is the innermost frame until it returns at line 21), visit is
\* never invoked on an absent reference, and dfs(NULL) as the outermost call
\* performs no visit action at all.
C4_AbsentReference ==
    /\ \A i \in 1..Len(stack) :
         stack[i].node = NULL =>
            stack[i].fn = "dfs" /\ i = Len(stack) /\ stack[i].pc \in {19, 21}
    /\ entry = "dfs" /\ arg = NULL =>
         /\ visited = << >> /\ out = << >> /\ reached = 0
         /\ Len(stack) <= 1 /\ absent <= 1
         /\ (~ ENABLED Next) => DfsReturned

C4_Witness == entry = "dfs" /\ arg = NULL /\ DfsReturned /\ absent = 1

ExpectedOut ==
    << "beginning depth first search\n",
       "visiting node 'root'\n",
       "visiting node 'a'\n",
       "visiting node 'c'\n",
       "visiting node 'd'\n",
       "visiting node 'e'\n",
       "visiting node 'b'\n",
       "visiting node 'f'\n",
       "finished depth first search\n" >>

\* C5: a run of main prints the beginning line, the seven visiting lines in
\* traversal order and the finished line, then ends with exit status 0, and
\* ends in no other way.
C5_MainOutput ==
    /\ [](entry = "main" =>
            /\ IsPrefix(out, ExpectedOut)
            /\ pc = "exited" <=> status = <<0>>
            /\ pc # "exited" <=> status = << >>
            /\ pc = "exited" => out = ExpectedOut
            /\ (~ ENABLED Next) => pc = "exited")
    /\ entry = "main" ~> pc = "exited"

C5_Witness == entry = "main" /\ pc = "exited" /\ status = <<0>> /\ Len(out) = 9

\* C6: when linking is complete the seven nodes have pairwise distinct names
\* and exactly the six child references of lines 43-48; all other child
\* references are absent, and the graph is a tree rooted at root.
C6_LinkedShape ==
    entry = "main" /\ Linked =>
        /\ node = [x \in AllNodes |->
                     CASE x = "&root" -> Node("&a", "&b", "root")
                       [] x = "&a"    -> Node("&c", "&d", "a")
                       [] x = "&b"    -> Node(NULL, "&f", "b")
                       [] x = "&c"    -> Node(NULL, NULL, "c")
                       [] x = "&d"    -> Node("&e", NULL, "d")
                       [] x = "&e"    -> Node(NULL, NULL, "e")
                       [] x = "&f"    -> Node(NULL, NULL, "f")]
        /\ \A x, y \in AllNodes : node[x].name = node[y].name => x = y
        /\ ~ HasCycle("&root")
        /\ IsTree("&root")
        /\ Reach("&root") = AllNodes

C6_Witness == entry = "main" /\ pc = "L50" /\ Len(writes) = 6

\* C7: the traversal of a tree with N nodes makes N dfs invocations that reach
\* the visit action and N+1 that receive an absent reference; 7 and 8 in main.
C7_InvocationCounts ==
    /\ TreeInput /\ DfsReturned =>
         /\ reached = Cardinality(Reach(arg))
         /\ absent = Cardinality(Reach(arg)) + 1
    /\ entry = "main" /\ DfsReturned => reached = 7 /\ absent = 8

C7_Witness == entry = "main" /\ pc = "L53" /\ reached = 7 /\ absent = 8

\* C8 as stated: during main's traversal at most 4 dfs invocations are active.
C8_AtMostFourDfsActive == entry = "main" => Cardinality(DfsActive) <= 4

\* C8 amended: during main's traversal at most 5 dfs invocations are active,
\* at most 4 of them on a node (the depth of the tree) and at most one, the
\* innermost, on an absent child reference.
C8_StackDepth ==
    entry = "main" =>
        /\ Cardinality(DfsActive) <= 5
        /\ Cardinality({i \in DfsActive : stack[i].node # NULL}) <= 4
        /\ Cardinality({i \in DfsActive : stack[i].node = NULL}) <= 1
        /\ Len(stack) <= 5

C8_Witness ==
    /\ entry = "main" /\ Cardinality(DfsActive) = 5
    /\ Cardinality({i \in DfsActive : stack[i].node # NULL}) = 4

\* C9: dfs does not detect cycles: when a cycle is reachable from the argument
\* the outermost call never returns, and the run stops nowhere but where the
\* MaxStack frames of the model are all in use, every caller among them having
\* performed its visit action.
C9_CycleNeverReturns ==
    entry = "dfs" /\ HasCycle(arg) =>
        /\ ~ DfsReturned
        /\ (~ ENABLED Next) => Len(stack) = MaxStack /\ Len(visited) + 1 >= MaxStack

C9_Witness ==
    /\ entry = "dfs" /\ HasCycle(arg)
    /\ Len(visited) > Cardinality(Reach(arg))
    /\ ~ NoDup(visited)

\* C10: after linking no step changes a node (dfs and visit only read them),
\* and during linking no child reference is written twice.
C10_NodesFrozen ==
    /\ [][Linked => node' = node]_vars
    /\ [](NoDup(writes))

C10_Witness ==
    /\ entry = "main" /\ pc = "exited" /\ Len(writes) = 6 /\ Len(visited) = 7

====
